---- MODULE Spec2Model ----
(***************************************************************************)
(* Triangles task (Glaze 2015): the trial generator generateBlockTrials    *)
(* and the session composer generateSessionData of src/utils/math.ts.      *)
(*                                                                         *)
(* Real numbers are fixed-point integers in thousandths: a screen position *)
(* 0.05 is 50, a hazard rate 0.3 is 300, a sigma ratio 0.24 is 240, a      *)
(* standard-normal sample 2.083 is 2083.  Math.random() returns a value of *)
(* [0,1), that is 0..999.                                                  *)
(***************************************************************************)
EXTENDS Integers, Sequences, FiniteSets, TLC

VARIABLES
    \* generateBlockTrials: arguments, locals, position, returned array
    gpc,            \* "idle" | "enter" | "loop" | "reject" | "done" (returned)
    trialCount,     \* argument
    hazardRate,     \* argument
    sigmaRatio,     \* argument
    currentSource,  \* 0 = left, 1 = right
    firstSource,    \* the source drawn at line 22, kept for reference
    i,              \* loop index of line 30
    x,              \* the x being sampled (lines 45-54)
    trials,         \* the array built at lines 59-64
    \* generateSessionData: argument, locals, position, returned array
    spc,            \* "off" | "enter" | "sort" | "loop" | "call" | "single" | "done"
    config,         \* argument (LabConfig)
    pool,           \* line 93; sorted in place at line 95
    sorted,         \* number of leading elements of pool the sort has placed
    b,              \* loop index of line 97
    h,              \* line 98
    blocks,         \* the array built at lines 84-88 and 110-114
    \* GlazeModel: arguments, locals, position, returned values
    mpc,            \* "off" | "args" | "trajectory" | "scored" | "fit" | "fitted"
    data,           \* argument (TrialData[])
    taskConfig,     \* argument (TaskConfig)
    subjectiveH,    \* argument H of getBeliefTrajectory and calculateFitScore
    beliefs,        \* the array returned by getBeliefTrajectory
    nll,            \* the number returned by calculateFitScore
    fitH,           \* loop variable h of fitSubjectiveH
    minNLL,         \* fitSubjectiveH, line 140
    bestH,          \* fitSubjectiveH, line 139
    evaluated,      \* the candidates passed to calculateFitScore at line 148, in order
    fitResult,      \* the object returned by fitSubjectiveH
    \* App: React state, the memoised session, and the mounted TrianglesGame
    state,          \* AppState: activeTab, phase, score, history, config
    sessionData,    \* value of the useMemo of App (lines 198-200)
    memoDeps,       \* the dependencies sessionData was computed for
    blockIndex,     \* TrianglesGame state (line 28)
    trialIndex,     \* TrianglesGame state (line 29)
    gameState,      \* "waiting" | "stimulus" | "feedback" | "block_interstitial"
    lastResult,     \* TrianglesGame state (line 38); shown FALSE is null
    blockScore,     \* TrianglesGame state (line 39)
    feedbackTimer,  \* the pending setTimeout of handleChoice and what it captured
    answeredInMount,\* number of choices accepted since the game was mounted
    finishedBy      \* "none" | "stop" (Stop Session) | "complete" (onSessionComplete)

genVars == <<gpc, trialCount, hazardRate, sigmaRatio, currentSource, firstSource, i, x, trials>>
sesVars == <<spc, config, pool, sorted, b, h, blocks>>
glazeVars == <<mpc, data, taskConfig, subjectiveH, beliefs, nll, fitH, minNLL, bestH,
               evaluated, fitResult>>
gameVars == <<blockIndex, trialIndex, gameState, lastResult, blockScore, feedbackTimer,
              answeredInMount>>
appVars == <<state, sessionData, memoDeps, blockIndex, trialIndex, gameState, lastResult,
             blockScore, feedbackTimer, answeredInMount, finishedBy>>
vars == <<gpc, trialCount, hazardRate, sigmaRatio, currentSource, firstSource, i, x, trials,
          spc, config, pool, sorted, b, h, blocks,
          mpc, data, taskConfig, subjectiveH, beliefs, nll, fitH, minNLL, bestH,
          evaluated, fitResult,
          state, sessionData, memoDeps, blockIndex, trialIndex, gameState, lastResult,
          blockScore, feedbackTimer, answeredInMount, finishedBy>>

----------------------------------------------------------------------------
(* Bounds of the explored inputs *)

MaxTrials == 2

TrialCounts == 1..MaxTrials

\* hazard rates given to the generator: inside, on the edges of and outside [0,1]
HazardRates == {-500, 0, 300, 1000, 1500}

\* sigma ratios given to the generator
SigmaRatios == {240, 1000}

\* values Math.random() may return, in thousandths
UniformDraws == {0, 300, 999}

\* values randn_bm() may return, in thousandths
NormalDraws == {-2090, -2083, -2000, 2000, 2083, 2090}

----------------------------------------------------------------------------
(* Constants of the program *)

LEFT_SOURCE_MEAN == 250

RIGHT_SOURCE_MEAN == 750

X_LOW == 50

X_HIGH == 950

CENTER == 500

MARGIN == 10

ALLOWED_HAZARD_RATES_CLOSED == <<0, 100, 300, 500, 700, 900, 1000>>

ALLOWED_HAZARD_RATES == <<50, 100, 300, 500, 700, 900, 950>>

----------------------------------------------------------------------------
(* Helpers of generateBlockTrials *)

Abs(v) == IF v < 0 THEN -v ELSE v

Max(p, q) == IF p > q THEN p ELSE q

Min(p, q) == IF p < q THEN p ELSE q

\* line 7-12: the set of values a call of randn_bm() may return
randn_bm == NormalDraws

\* line 22: Math.random() < 0.5 ? 0 : 1
InitialSource(u) == IF u < 500 THEN 0 ELSE 1

SwitchFiresInverted(u, hz) == u > hz

SwitchFiresInclusive(u, hz) == u <= hz

\* line 32: Math.random() < hazardRate
SwitchFires(u, hz) == u < hz

\* line 33: currentSource === 0 ? 1 : 0
Flip(s) == IF s = 0 THEN 1 ELSE 0

\* line 25
distance == RIGHT_SOURCE_MEAN - LEFT_SOURCE_MEAN

\* line 28: sigmaRatio * distance
actualSigma(ratio) == (ratio * distance) \div 1000

\* line 38
muX(s) == IF s = 0 THEN LEFT_SOURCE_MEAN ELSE RIGHT_SOURCE_MEAN

\* line 41
muY == 500

ClampLowOnly(v) == Max(X_LOW, v)

\* lines 46, 53, 57: Math.max(0.05, Math.min(0.95, v))
Clamp(v) == Max(X_LOW, Min(X_HIGH, v))

\* lines 45-46, 52-53, 56-57: mu + randn_bm() * actualSigma, clamped
Sample(mu, z, ratio) == Clamp(mu + ((z * actualSigma(ratio)) \div 1000))

TooCloseNever(v) == FALSE

\* line 51: Math.abs(x - 0.5) < 0.01
TooClose(v) == Abs(v - CENTER) < MARGIN

SourceName(s) == IF s = 0 THEN "left" ELSE "right"

MkTrialOneBased(idx, s, px, py) ==
    [trialIndex |-> idx + 1, source |-> SourceName(s), x |-> px, y |-> py]

\* lines 59-64
MkTrial(idx, s, px, py) ==
    [trialIndex |-> idx, source |-> SourceName(s), x |-> px, y |-> py]

----------------------------------------------------------------------------
(* generateBlockTrials, lines 18-68.  Each action takes the sets its random   *)
(* draws come from: U for Math.random(), Z for randn_bm().                    *)

\* line 30: i < trialCount
LoopContinues(idx, n) == idx < n

\* lines 19-30: entry, the initial source is drawn, first loop test
GenEnter(U) ==
    /\ gpc = "enter"
    /\ \E u \in U :
          /\ currentSource' = InitialSource(u)
          /\ firstSource' = InitialSource(u)
    /\ trials' = <<>>
    /\ i' = 0
    /\ x' = 0
    /\ gpc' = IF LoopContinues(0, trialCount) THEN "loop" ELSE "done"
    /\ UNCHANGED <<trialCount, hazardRate, sigmaRatio>>
    /\ UNCHANGED sesVars
    /\ UNCHANGED glazeVars
    /\ UNCHANGED appVars

\* lines 31-46: switch draw, first sample of x
GenTrialBegin(U, Z) ==
    /\ gpc = "loop"
    /\ \E u \in U, z \in Z :
          LET s == IF SwitchFires(u, hazardRate) THEN Flip(currentSource)
                   ELSE currentSource
          IN /\ currentSource' = s
             /\ x' = Sample(muX(s), z, sigmaRatio)
    /\ gpc' = "reject"
    /\ UNCHANGED <<trialCount, hazardRate, sigmaRatio, firstSource, i, trials>>
    /\ UNCHANGED sesVars
    /\ UNCHANGED glazeVars
    /\ UNCHANGED appVars

\* lines 51-54: one pass of the rejection loop
GenResample(Z) ==
    /\ gpc = "reject"
    /\ TooClose(x)
    /\ \E z \in Z : x' = Sample(muX(currentSource), z, sigmaRatio)
    /\ UNCHANGED <<gpc, trialCount, hazardRate, sigmaRatio, currentSource, firstSource,
                   i, trials>>
    /\ UNCHANGED sesVars
    /\ UNCHANGED glazeVars
    /\ UNCHANGED appVars

\* lines 51, 56-67, 30: the rejection loop exits, y is sampled, the trial is
\* pushed, i++ and the next loop test; trials is returned when it fails
GenTrialEnd(Z) ==
    /\ gpc = "reject"
    /\ ~TooClose(x)
    /\ \E z \in Z :
          trials' = Append(trials, MkTrial(i, currentSource, x, Sample(muY, z, sigmaRatio)))
    /\ i' = i + 1
    /\ gpc' = IF LoopContinues(i + 1, trialCount) THEN "loop" ELSE "done"
    /\ UNCHANGED <<trialCount, hazardRate, sigmaRatio, currentSource, firstSource, x>>
    /\ UNCHANGED sesVars
    /\ UNCHANGED glazeVars
    /\ UNCHANGED appVars

----------------------------------------------------------------------------
(* A direct call generateBlockTrials(trialCount, hazardRate, sigmaRatio) *)

NoSession ==
    /\ spc = "off"
    /\ config = [hazardRate |-> 0, distributionSigma |-> 0, trialCount |-> 0,
                 blockCount |-> 0]
    /\ pool = <<>>
    /\ sorted = 0
    /\ b = 0
    /\ h = 0
    /\ blocks = <<>>

\* a TrianglesGame that is not mounted has no state: the values of a fresh mount
NoGame ==
    /\ blockIndex = 0
    /\ trialIndex = 0
    /\ gameState = "waiting"
    /\ lastResult = [shown |-> FALSE, correct |-> FALSE, reward |-> 0]
    /\ blockScore = 0
    /\ feedbackTimer = [armed |-> FALSE, trialIndex |-> 0, length |-> 0]
    /\ answeredInMount = 0

NoApp ==
    /\ state = [activeTab |-> "none", phase |-> "none", score |-> 0, history |-> <<>>,
                config |-> [hazardRate |-> 0, distributionSigma |-> 0, trialCount |-> 0,
                            blockCount |-> 0]]
    /\ sessionData = <<>>
    /\ memoDeps = [trialCount |-> 0, hazardRate |-> 0, distributionSigma |-> 0,
                   blockCount |-> 0, phase |-> "none"]
    /\ NoGame
    /\ finishedBy = "none"

NoGlaze ==
    /\ mpc = "off"
    /\ data = <<>>
    /\ taskConfig = [meanPosition |-> 0, stdDev |-> 0]
    /\ subjectiveH = 0
    /\ beliefs = <<>>
    /\ nll = 0
    /\ fitH = 0
    /\ minNLL = 0
    /\ bestH = 0
    /\ evaluated = <<>>
    /\ fitResult = [fittedH |-> 0, beliefTrajectory |-> <<>>]

GenInit ==
    /\ gpc = "enter"
    /\ trialCount \in TrialCounts
    /\ hazardRate \in HazardRates
    /\ sigmaRatio \in SigmaRatios
    /\ currentSource = 0
    /\ firstSource = 0
    /\ i = 0
    /\ x = 0
    /\ trials = <<>>
    /\ NoSession
    /\ NoGlaze
    /\ NoApp

GenNext ==
    \/ GenEnter(UniformDraws)
    \/ GenTrialBegin(UniformDraws, randn_bm)
    \/ GenResample(randn_bm)
    \/ GenTrialEnd(randn_bm)

SpecGen == GenInit /\ [][GenNext]_vars

\* the call runs to its next statement whenever it has one
FairSpecGen == SpecGen /\ WF_vars(GenNext)

----------------------------------------------------------------------------
(* Helpers of generateSessionData *)

\* the value undefined, which compares false with every number
undefined == 0 - 999999

\* a[idx] of a JavaScript array, idx 0-based: undefined outside the array
At(arr, idx) == IF idx + 1 \in DOMAIN arr THEN arr[idx + 1] ELSE undefined

\* line 95: the comparator () => Math.random() - 0.5
comparator(u) == u - 500

\* line 95: where Array.prototype.sort places the element at index right among
\* the already ordered elements left..right-1 (binary insertion, the engine's
\* sort of a short array), over every outcome of the comparator calls
RECURSIVE InsertionPoints(_, _, _)
InsertionPoints(left, right, U) ==
    IF left >= right THEN {left}
    ELSE LET mid == left + ((right - left) \div 2)
         IN UNION { IF comparator(u) < 0
                    THEN InsertionPoints(left, mid, U)
                    ELSE InsertionPoints(mid + 1, right, U) : u \in U }

MoveToOverwriting(arr, from, to) == [arr EXCEPT ![to + 1] = arr[from + 1]]

\* line 95: the sort moves arr[from] down to index to, shifting to..from-1 up
MoveTo(arr, from, to) ==
    [k \in 1..Len(arr) |->
        IF k - 1 < to THEN arr[k]
        ELSE IF k - 1 = to THEN arr[from + 1]
        ELSE IF k - 1 <= from THEN arr[k - 1]
        ELSE arr[k]]

\* line 95: sort works in place and returns its receiver, so shuffledPool and
\* pool are the same array
shuffledPool == pool

PickIndexRounded(u, n) == ((u * n) + 500) \div 1000

\* line 105: Math.floor(Math.random() * pool.length)
PickIndex(u, n) == (u * n) \div 1000

SingleBlockRateFromPool(c) == ALLOWED_HAZARD_RATES[1]

\* line 86: the single block's hazard rate
SingleBlockRate(c) == c.hazardRate

BlockIdZeroBased(idx) == idx

\* line 111: blockId: b + 1
BlockId(idx) == idx + 1

\* lines 84-88, 110-114
MkBlock(id, hz, ts) == [blockId |-> id, hazardRate |-> hz, trials |-> ts]

\* lines 87, 108: generateBlockTrials(config.trialCount, hz, config.distributionSigma)
CallGenerate(hz) ==
    /\ gpc' = "enter"
    /\ trialCount' = config.trialCount
    /\ hazardRate' = hz
    /\ sigmaRatio' = config.distributionSigma
    /\ UNCHANGED <<currentSource, firstSource, i, x, trials>>

----------------------------------------------------------------------------
(* generateSessionData, lines 79-118 *)

\* lines 80-87: single block mode, the generator is called with config.hazardRate
SessionSingleCall ==
    /\ spc = "enter"
    /\ config.blockCount = 1
    /\ blocks' = <<>>
    /\ h' = SingleBlockRate(config)
    /\ CallGenerate(SingleBlockRate(config))
    /\ spc' = "single"
    /\ UNCHANGED <<config, pool, sorted, b>>
    /\ UNCHANGED glazeVars
    /\ UNCHANGED appVars

\* lines 84-89: the single block is pushed and blocks is returned
SessionSinglePush ==
    /\ spc = "single"
    /\ gpc = "done"
    /\ blocks' = Append(blocks, MkBlock(1, h, trials))
    /\ spc' = "done"
    /\ gpc' = "idle"
    /\ UNCHANGED <<trialCount, hazardRate, sigmaRatio, currentSource, firstSource, i, x,
                   trials>>
    /\ UNCHANGED <<config, pool, sorted, b, h>>
    /\ UNCHANGED glazeVars
    /\ UNCHANGED appVars

\* lines 80-83, 93, 95: multi-block mode, the pool is copied and the sort begins
SessionMultiBegin ==
    /\ spc = "enter"
    /\ config.blockCount # 1
    /\ blocks' = <<>>
    /\ pool' = ALLOWED_HAZARD_RATES
    /\ sorted' = 1
    /\ spc' = "sort"
    /\ UNCHANGED <<config, b, h>>
    /\ UNCHANGED genVars
    /\ UNCHANGED glazeVars
    /\ UNCHANGED appVars

\* line 95: the sort places one more element of pool
SessionSortStep(U) ==
    /\ spc = "sort"
    /\ sorted < Len(pool)
    /\ \E to \in InsertionPoints(0, sorted, U) : pool' = MoveTo(pool, sorted, to)
    /\ sorted' = sorted + 1
    /\ UNCHANGED <<spc, config, b, h, blocks>>
    /\ UNCHANGED genVars
    /\ UNCHANGED glazeVars
    /\ UNCHANGED appVars

\* lines 95, 97: the sort returns, the block loop starts
SessionSortReturn ==
    /\ spc = "sort"
    /\ ~(sorted < Len(pool))
    /\ b' = 0
    /\ spc' = IF 0 < config.blockCount THEN "loop" ELSE "done"
    /\ UNCHANGED <<config, pool, sorted, h, blocks>>
    /\ UNCHANGED genVars
    /\ UNCHANGED glazeVars
    /\ UNCHANGED appVars

\* lines 100-102, 108: phase 1, the b-th element of the shuffled pool
SessionPickShuffled ==
    /\ spc = "loop"
    /\ b < Len(shuffledPool)
    /\ h' = At(shuffledPool, b)
    /\ CallGenerate(At(shuffledPool, b))
    /\ spc' = "call"
    /\ UNCHANGED <<config, pool, sorted, b, blocks>>
    /\ UNCHANGED glazeVars
    /\ UNCHANGED appVars

\* lines 103-108: phase 2, a random element of pool
SessionPickRandom(U) ==
    /\ spc = "loop"
    /\ ~(b < Len(shuffledPool))
    /\ \E u \in U :
          /\ h' = At(pool, PickIndex(u, Len(pool)))
          /\ CallGenerate(At(pool, PickIndex(u, Len(pool))))
    /\ spc' = "call"
    /\ UNCHANGED <<config, pool, sorted, b, blocks>>
    /\ UNCHANGED glazeVars
    /\ UNCHANGED appVars

\* lines 110-117, 97: the block is pushed, b++ and the next loop test; blocks is
\* returned when it fails
SessionPushBlock ==
    /\ spc = "call"
    /\ gpc = "done"
    /\ blocks' = Append(blocks, MkBlock(BlockId(b), h, trials))
    /\ b' = b + 1
    /\ spc' = IF b + 1 < config.blockCount THEN "loop" ELSE "done"
    /\ gpc' = "idle"
    /\ UNCHANGED <<trialCount, hazardRate, sigmaRatio, currentSource, firstSource, i, x,
                   trials>>
    /\ UNCHANGED <<config, pool, sorted, h>>
    /\ UNCHANGED glazeVars
    /\ UNCHANGED appVars

----------------------------------------------------------------------------
(* A call generateSessionData(config) *)

MaxBlocks == 8

\* block counts: single-block mode, sessions no longer than the pool, and one
\* that goes past it
BlockCounts == 1..MaxBlocks

\* config.hazardRate in single-block mode; 0.42 is not an allowed rate
SingleManualRates == {0, 50, 420, 1000}

\* config.hazardRate in multi-block mode
MultiManualRates == {420}

SessionConfigs ==
    { c \in [hazardRate : SingleManualRates \cup MultiManualRates,
             distributionSigma : {240},
             trialCount : {1},
             blockCount : BlockCounts] :
        IF c.blockCount = 1 THEN c.hazardRate \in SingleManualRates
        ELSE c.hazardRate \in MultiManualRates }

\* the draws of the comparator of line 95: below, at and above 0.5
CompareDraws == {0, 500, 999}

\* the draws of line 105: one for each index of the pool, and the largest
PickDraws == {0, 143, 286, 429, 572, 715, 858, 999}

\* the draws of the trials of a session's blocks
SessionUniformDraws == {0}

SessionXDraws == {-2083, 2000}

SessionYDraws == {2000}

SessionInit ==
    /\ spc = "enter"
    /\ config \in SessionConfigs
    /\ pool = <<>>
    /\ sorted = 0
    /\ b = 0
    /\ h = 0
    /\ blocks = <<>>
    /\ gpc = "idle"
    /\ trialCount = 0
    /\ hazardRate = 0
    /\ sigmaRatio = 0
    /\ currentSource = 0
    /\ firstSource = 0
    /\ i = 0
    /\ x = 0
    /\ trials = <<>>
    /\ NoGlaze
    /\ NoApp

SessionNext ==
    \/ SessionSingleCall
    \/ SessionSinglePush
    \/ SessionMultiBegin
    \/ SessionSortStep(CompareDraws)
    \/ SessionSortReturn
    \/ SessionPickShuffled
    \/ SessionPickRandom(PickDraws)
    \/ SessionPushBlock
    \/ GenEnter(SessionUniformDraws)
    \/ GenTrialBegin(SessionUniformDraws, SessionXDraws)
    \/ GenResample(SessionXDraws)
    \/ GenTrialEnd(SessionYDraws)

SpecSession == SessionInit /\ [][SessionNext]_vars

----------------
(* Claims about generateBlockTrials *)

InRange(v) == 50 <= v /\ v <= 950

Returned == gpc = "done"

\* C1: every trial generateBlockTrials has built satisfies 0.05 <= x <= 0.95,
\* 0.05 <= y <= 0.95 and |x - 0.5| >= 0.01, whatever the arguments and the draws.
C1_TrialsInRange ==
    \A k \in 1..Len(trials) :
        /\ InRange(trials[k].x)
        /\ InRange(trials[k].y)
        /\ Abs(trials[k].x - 500) >= 10

\* a returned block holding a clamped x and an x exactly on the edge of the band
C1_Witness ==
    /\ Returned
    /\ \E k \in 1..Len(trials) : trials[k].x = 50
    /\ \E k \in 1..Len(trials) : Abs(trials[k].x - 500) = 10

\* C2: every call of generateBlockTrials returns: the rejection loop that resamples
\* x while |x - 0.5| < 0.01 ends after a bounded number of retries.
C2_GenerateReturns == <>(gpc = "done")

\* C3: with hazardRate = 0 every trial has the initially drawn source.
C3_NoSwitchAtZero ==
    hazardRate = 0 =>
        \A k \in 1..Len(trials) : trials[k].source = SourceName(firstSource)

C3_Witness == Returned /\ hazardRate = 0 /\ Len(trials) >= 2

\* C4: with hazardRate = 1 the source switches on every trial: trial 0 has the source
\* opposite to the initial draw and consecutive trials have different sources.
C4_SwitchEveryTrialAtOne ==
    hazardRate = 1000 =>
        /\ Len(trials) >= 1 => trials[1].source = SourceName(1 - firstSource)
        /\ \A k \in 1..(Len(trials) - 1) : trials[k].source # trials[k + 1].source

C4_Witness == Returned /\ hazardRate = 1000 /\ Len(trials) >= 2

\* C5: generateBlockTrials returns exactly trialCount trials and the i-th trial
\* (0-based) carries trialIndex = i.
C5_CountAndIndices ==
    /\ \A k \in 1..Len(trials) : trials[k].trialIndex = k - 1
    /\ Len(trials) <= trialCount
    /\ Returned => Len(trials) = trialCount

C5_Witness == Returned /\ Len(trials) = trialCount /\ trialCount >= 2

\* C6: a hazard rate outside [0,1] does not make the generator fail: below 0 it
\* behaves as 0 (no switch ever), above 1 as 1 (a switch on every trial).
C6_OutOfRangeHazardActsClamped ==
    /\ gpc \in {"enter", "loop", "reject", "done"}
    /\ hazardRate < 0 =>
          \A k \in 1..Len(trials) : trials[k].source = SourceName(firstSource)
    /\ hazardRate > 1000 =>
          /\ Len(trials) >= 1 => trials[1].source = SourceName(1 - firstSource)
          /\ \A k \in 1..(Len(trials) - 1) : trials[k].source # trials[k + 1].source

C6_Witness == Returned /\ hazardRate > 1000 /\ Len(trials) >= 2

----------------------------------------------------------------------------
(* Floating-point numbers of the belief model (GlazeModel).  A belief, a log- *)
(* likelihood ratio and a negative log-likelihood are fixed-point integers in *)
(* thousandths, or one of Infinity, -Infinity and NaN.  A hazard rate H is in *)
(* millionths (0.001 is 1000), so that the clamp to [1e-6, 1 - 1e-6] shows.    *)
(* A positive number that is only ever passed to Math.log (the stability      *)
(* ratio, Math.exp(..), their sums, a probability) is kept as its natural     *)
(* logarithm in thousandths, with -Infinity for 0 and Infinity for Infinity.  *)

PosInf == 1000000 * 1000

NegInf == 0 - PosInf

NaN == PosInf + 1

IsFinite(v) == v # NaN /\ v # PosInf /\ v # NegInf

\* a + b of two doubles
FAdd(p, q) ==
    IF p = NaN \/ q = NaN THEN NaN
    ELSE IF p = PosInf THEN (IF q = NegInf THEN NaN ELSE PosInf)
    ELSE IF p = NegInf THEN (IF q = PosInf THEN NaN ELSE NegInf)
    ELSE IF q = PosInf \/ q = NegInf THEN q
    ELSE p + q

\* -a of a double
FNeg(p) ==
    IF p = NaN THEN NaN
    ELSE IF p = PosInf THEN NegInf
    ELSE IF p = NegInf THEN PosInf
    ELSE 0 - p

\* a - b of two doubles
FSub(p, q) == FAdd(p, FNeg(q))

\* a < b of two doubles: false when either is NaN
FLess(p, q) == p # NaN /\ q # NaN /\ p < q

\* floor(a * 10000 / d) for 0 <= a, 0 < d, by long division (keeps the
\* intermediate products small)
Ratio10000(a, d) ==
    LET q1 == (a * 100) \div d
        r1 == (a * 100) % d
    IN (q1 * 100) + ((r1 * 100) \div d)

\* Math.exp(-f / 1000) in millionths for 0 <= f < 694: the power series
RECURSIVE ExpSeries(_, _, _)
ExpSeries(f, n, term) ==
    IF term = 0 THEN 0
    ELSE term - ExpSeries(f, n + 1, (term * f) \div (1000 * (n + 1)))

RECURSIVE Halve(_, _)
Halve(v, k) == IF k = 0 THEN v ELSE Halve(v \div 2, k - 1)

\* Math.exp(-d / 1000) in millionths for d >= 0: 2^-k * exp(-f), d = k ln 2 + f
ExpNeg(d) ==
    LET k == (d * 1000) \div 693147
        f == d - ((k * 693147) \div 1000)
    IN IF d >= 20000 THEN 0 ELSE Halve(ExpSeries(f, 0, 1000000), k)

\* 2 atanh(t), t in hundred-thousandths, 0 <= t <= 1/3: t + t^3/3 + t^5/5 + ...
RECURSIVE AtanhSeries(_, _, _)
AtanhSeries(t2, n, power) ==
    IF power = 0 THEN 0
    ELSE (power \div n) + AtanhSeries(t2, n + 2, (power * t2) \div 100000)

\* Math.log(1 + y / 10000) in thousandths for 0 <= y <= 10000:
\* 2 atanh(y / (2 + y))
Log1p(y) ==
    LET t == (y * 100000) \div (20000 + y)
        t2 == (t * t) \div 100000
    IN (2 * AtanhSeries(t2, 1, t) + 50) \div 100

RECURSIVE Log2Floor(_)
Log2Floor(n) == IF n < 2 THEN 0 ELSE 1 + Log2Floor(n \div 2)

RECURSIVE Pow2(_)
Pow2(k) == IF k = 0 THEN 1 ELSE 2 * Pow2(k - 1)

\* Math.log(n) in thousandths for an integer n >= 1: k ln 2 + log(n / 2^k)
LogInt(n) ==
    LET k == Log2Floor(n)
    IN ((k * 693147) \div 1000) + Log1p(Ratio10000(n - Pow2(k), Pow2(k)))

\* Math.log(1 + Math.exp(-d / 1000)) in thousandths for d >= 0
Softplus(d) == Log1p(ExpNeg(d) \div 100)

\* Math.exp(v), kept as its logarithm: Infinity above 709.78, 0 below -745.13
ExpLog(v) ==
    IF v = NaN THEN NaN
    ELSE IF v = PosInf \/ (v # NegInf /\ v > 709782) THEN PosInf
    ELSE IF v = NegInf \/ v < 0 - 745133 THEN NegInf
    ELSE v

\* Math.log(p + q) of two numbers >= 0 kept as their logarithms p and q
LogSum(p, q) ==
    IF p = NaN \/ q = NaN THEN NaN
    ELSE IF p = PosInf \/ q = PosInf THEN PosInf
    ELSE IF p = NegInf THEN q
    ELSE IF q = NegInf THEN p
    ELSE Max(p, q) + Softplus(Abs(p - q))

----------------------------------------------------------------------------
(* GlazeModel: psi, update, calculateLLR, getBeliefTrajectory,               *)
(* calculateFitScore.  A TrialData is [starPosition, userChoice]; a          *)
(* TaskConfig is [meanPosition, stdDev], both in thousandths.                *)

H_MIN == 1

H_MAX == 999999

ClampHDefaulting(H) == IF H < H_MIN \/ H > H_MAX THEN 500000 ELSE H

\* const h = Math.max(0.000001, Math.min(0.999999, H))
ClampH(H) == Max(H_MIN, Min(H_MAX, H))

\* Math.log of (1 - h) / h, for the clamped h
stabilityRatio(hc) == LogInt(1000000 - hc) - LogInt(hc)

psiOneSided(Ln_prev, H) ==
    LET r == stabilityRatio(ClampH(H))
    IN FAdd(Ln_prev, LogSum(r, ExpLog(FNeg(Ln_prev))))

\* psi(L) = L + log((1-H)/H + exp(-L)) - log((1-H)/H + exp(L))
psi(Ln_prev, H) ==
    LET r == stabilityRatio(ClampH(H))
        term1 == LogSum(r, ExpLog(FNeg(Ln_prev)))
        term2 == LogSum(r, ExpLog(Ln_prev))
    IN FSub(FAdd(Ln_prev, term1), term2)

updateWithoutPrior(Ln_prev, LLRn, H) == FAdd(Ln_prev, LLRn)

\* Ln = psi(Ln-1, H) + LLRn
update(Ln_prev, LLRn, H) == FAdd(psi(Ln_prev, H), LLRn)

\* (2 * mean * x) / variance, in thousandths
calculateLLR(xPos, cfg) ==
    LET variance == cfg.stdDev * cfg.stdDev
        n == 2 * cfg.meanPosition * Abs(xPos)
        mag == ((n \div variance) * 1000) + (((n % variance) * 1000) \div variance)
    IN IF xPos < 0 THEN 0 - mag ELSE mag

\* the for..of loop of getBeliefTrajectory, from the beliefs pushed so far
RECURSIVE BeliefLoop(_, _, _, _, _)
BeliefLoop(d, cfg, H, currentL, bs) ==
    IF Len(bs) = Len(d) THEN bs
    ELSE LET llr == calculateLLR(d[Len(bs) + 1].starPosition, cfg)
             newL == update(currentL, llr, H)
         IN BeliefLoop(d, cfg, H, newL, Append(bs, newL))

getBeliefTrajectoryReusing(d, cfg, H) == beliefs \o BeliefLoop(d, cfg, H, 0, <<>>)

\* lines 74-87: const beliefs = [] is local to the call
getBeliefTrajectory(d, cfg, H) == BeliefLoop(d, cfg, H, 0, <<>>)

beta == 1

LOG_EPSILON == 0 - 23026

\* -beta * L
NegBetaTimes(L) == IF IsFinite(L) THEN 0 - (beta * L) ELSE FNeg(L)

\* Math.log of probRight = 1 / (1 + Math.exp(-beta * L))
logProbRight(L) == FNeg(LogSum(0, ExpLog(NegBetaTimes(L))))

\* Math.log of probLeft = 1 - probRight.  1 - 1/(1 + e^-bL) is 1/(1 + e^bL);
\* where the subtraction cancels to 0 the logarithm is below LOG_EPSILON
\* either way.
logProbLeft(L) ==
    IF logProbRight(L) = NaN THEN NaN
    ELSE FNeg(LogSum(0, ExpLog(FNeg(NegBetaTimes(L)))))

\* userChoice === 1 ? probRight : probLeft
logLikelihood(L, userChoice) ==
    IF userChoice = 1 THEN logProbRight(L) ELSE logProbLeft(L)

\* Math.log(Math.max(1e-10, likelihood)); Math.max returns NaN for a NaN
LogFloored(l) == IF l = NaN THEN NaN ELSE Max(LOG_EPSILON, l)

\* the for loop of calculateFitScore, from trial k on
RECURSIVE ScoreLoop(_, _, _, _)
ScoreLoop(d, bs, k, totalNLL) ==
    IF k > Len(d) THEN totalNLL
    ELSE ScoreLoop(d, bs, k + 1,
                   FSub(totalNLL, LogFloored(logLikelihood(bs[k], d[k].userChoice))))

calculateFitScore(d, cfg, H) ==
    ScoreLoop(d, getBeliefTrajectory(d, cfg, H), 1, 0)

----------------------------------------------------------------------------
(* getBeliefTrajectory and calculateFitScore called on the same arguments *)

MkTrialData(e, c) == [starPosition |-> e, userChoice |-> c]

RECURSIVE SeqsUpTo(_, _)
SeqsUpTo(S, n) ==
    IF n = 0 THEN {<<>>}
    ELSE SeqsUpTo(S, n - 1) \cup
         {Append(sq, e) : sq \in {t \in SeqsUpTo(S, n - 1) : Len(t) = n - 1}, e \in S}

NoGenerate ==
    /\ gpc = "idle"
    /\ trialCount = 0
    /\ hazardRate = 0
    /\ sigmaRatio = 0
    /\ currentSource = 0
    /\ firstSource = 0
    /\ i = 0
    /\ x = 0
    /\ trials = <<>>

NoFit ==
    /\ fitH = 0
    /\ minNLL = 0
    /\ bestH = 0
    /\ evaluated = <<>>
    /\ fitResult = [fittedH |-> 0, beliefTrajectory |-> <<>>]

MaxData == 3

\* evidence 21.0 is far outside the screen; a record without userChoice has
\* userChoice undefined
BeliefTrials ==
    {MkTrialData(0 - 300, 0), MkTrialData(0 - 300, 1), MkTrialData(450, 1),
     MkTrialData(450, undefined), MkTrialData(21000, 1)}

BeliefConfigs == {[meanPosition |-> 250, stdDev |-> 120], [meanPosition |-> 250, stdDev |-> 205]}

BeliefHs == {0 - 500000, 0, 1, 300000, 999999, 1000000, 1500000}

BeliefInit ==
    /\ mpc = "args"
    /\ data \in SeqsUpTo(BeliefTrials, MaxData)
    /\ taskConfig \in BeliefConfigs
    /\ subjectiveH \in BeliefHs
    /\ beliefs = <<>>
    /\ nll = 0
    /\ NoFit
    /\ NoGenerate
    /\ NoSession
    /\ NoApp

\* getBeliefTrajectory(data, taskConfig, subjectiveH)
CallGetBeliefTrajectory ==
    /\ mpc = "args"
    /\ beliefs' = getBeliefTrajectory(data, taskConfig, subjectiveH)
    /\ mpc' = "trajectory"
    /\ UNCHANGED <<data, taskConfig, subjectiveH, nll, fitH, minNLL, bestH, evaluated,
                   fitResult>>
    /\ UNCHANGED genVars
    /\ UNCHANGED sesVars
    /\ UNCHANGED appVars

\* calculateFitScore(data, taskConfig, subjectiveH)
CallCalculateFitScore ==
    /\ mpc = "trajectory"
    /\ nll' = calculateFitScore(data, taskConfig, subjectiveH)
    /\ mpc' = "scored"
    /\ UNCHANGED <<data, taskConfig, subjectiveH, beliefs, fitH, minNLL, bestH, evaluated,
                   fitResult>>
    /\ UNCHANGED genVars
    /\ UNCHANGED sesVars
    /\ UNCHANGED appVars

\* a second call of both methods with the arguments of the first
CallAgain ==
    /\ mpc = "scored"
    /\ beliefs' = getBeliefTrajectory(data, taskConfig, subjectiveH)
    /\ nll' = calculateFitScore(data, taskConfig, subjectiveH)
    /\ mpc' = "again"
    /\ UNCHANGED <<data, taskConfig, subjectiveH, fitH, minNLL, bestH, evaluated,
                   fitResult>>
    /\ UNCHANGED genVars
    /\ UNCHANGED sesVars
    /\ UNCHANGED appVars

BeliefNext ==
    \/ CallGetBeliefTrajectory
    \/ CallCalculateFitScore
    \/ CallAgain

SpecBelief == BeliefInit /\ [][BeliefNext]_vars

----------------------------------------------------------------------------
(* fitSubjectiveH *)

INITIAL_BEST_H == 500000

GRID_STEP == 10000

GRID_START == 1000

GRID_END == 999000

\* line 147: h <= end
FitLoopContinues(hc) == hc <= GRID_END

NextCandidateCoarse(hc) == hc + (2 * GRID_STEP)

\* line 147: h += step
NextCandidate(hc) == hc + GRID_STEP

\* line 149: nll < minNLL
Improves(score, best) == FLess(score, best)

FitReturnInitialTrajectory(d, cfg, best) ==
    [fittedH |-> best, beliefTrajectory |-> getBeliefTrajectory(d, cfg, INITIAL_BEST_H)]

\* lines 156-159
FitReturn(d, cfg, best) ==
    [fittedH |-> best, beliefTrajectory |-> getBeliefTrajectory(d, cfg, best)]

FitTrials == {MkTrialData(300, 1), MkTrialData(0 - 300, 0), MkTrialData(21000, 1)}

FitConfigs == {[meanPosition |-> 250, stdDev |-> 120]}

\* the evidence [0.3, 0.3, 0.3, 0.3, 0.3] with choices [1, 1, 1, 1, 1]
StrongRightEvidence == [k \in 1..5 |-> MkTrialData(300, 1)]

FitInit ==
    /\ mpc = "fit"
    /\ data \in SeqsUpTo(FitTrials, MaxData) \cup {StrongRightEvidence}
    /\ taskConfig \in FitConfigs
    /\ subjectiveH = 0
    /\ beliefs = <<>>
    /\ nll = 0
    /\ fitH = GRID_START
    /\ minNLL = PosInf
    /\ bestH = INITIAL_BEST_H
    /\ evaluated = <<>>
    /\ fitResult = [fittedH |-> 0, beliefTrajectory |-> <<>>]
    /\ NoGenerate
    /\ NoSession
    /\ NoApp

\* one iteration of the loop of lines 147-153
FitEvaluate ==
    /\ mpc = "fit"
    /\ FitLoopContinues(fitH)
    /\ LET score == calculateFitScore(data, taskConfig, fitH)
       IN /\ nll' = score
          /\ minNLL' = IF Improves(score, minNLL) THEN score ELSE minNLL
          /\ bestH' = IF Improves(score, minNLL) THEN fitH ELSE bestH
    /\ evaluated' = Append(evaluated, fitH)
    /\ fitH' = NextCandidate(fitH)
    /\ UNCHANGED <<mpc, data, taskConfig, subjectiveH, beliefs, fitResult>>
    /\ UNCHANGED genVars
    /\ UNCHANGED sesVars
    /\ UNCHANGED appVars

\* loop exit and the return of lines 156-159
FitExit ==
    /\ mpc = "fit"
    /\ ~FitLoopContinues(fitH)
    /\ fitResult' = FitReturn(data, taskConfig, bestH)
    /\ mpc' = "fitted"
    /\ UNCHANGED <<data, taskConfig, subjectiveH, beliefs, nll, fitH, minNLL, bestH,
                   evaluated>>
    /\ UNCHANGED genVars
    /\ UNCHANGED sesVars
    /\ UNCHANGED appVars

FitNext ==
    \/ FitEvaluate
    \/ FitExit

SpecFit == FitInit /\ [][FitNext]_vars

----------------------------------------------------------------------------
(* Claims about generateSessionData *)

SessionReturned == spc = "done"

AllowedRates == {50, 100, 300, 500, 700, 900, 950}

\* C7: with blockCount = 1 the session is exactly one block, with blockId 1 and
\* hazardRate equal to config.hazardRate, which is also the rate its trials are
\* generated with.
C7_SingleBlockVerbatim ==
    config.blockCount = 1 =>
        /\ Len(blocks) <= 1
        /\ \A k \in 1..Len(blocks) :
              /\ blocks[k].blockId = 1
              /\ blocks[k].hazardRate = config.hazardRate
        /\ spc = "single" => hazardRate = config.hazardRate
        /\ SessionReturned => Len(blocks) = 1

\* the single block of a session whose manual rate is not an allowed rate
C7_Witness ==
    /\ SessionReturned
    /\ config.blockCount = 1
    /\ config.hazardRate = 420
    /\ Len(blocks) = 1

\* C8: with blockCount > 1 the first min(blockCount, 7) blocks have pairwise
\* distinct hazard rates: the shuffled pool holds every allowed rate exactly once.
C8_FirstBlocksDistinct ==
    config.blockCount > 1 =>
        /\ \A j, k \in 1..Min(Len(blocks), 7) :
              j # k => blocks[j].hazardRate # blocks[k].hazardRate
        /\ spc # "enter" =>
              /\ Len(pool) = 7
              /\ {pool[k] : k \in 1..Len(pool)} = AllowedRates

\* a returned session of at least 7 blocks whose pool the sort has reordered
C8_Witness ==
    /\ SessionReturned
    /\ config.blockCount >= 7
    /\ Len(blocks) = config.blockCount
    /\ pool # <<50, 100, 300, 500, 700, 900, 950>>
    /\ blocks[1].hazardRate = 950

\* C9: with blockCount > 1 every block's hazardRate, and the rate its trials are
\* generated with, is one of the allowed rates {0.05, 0.1, 0.3, 0.5, 0.7, 0.9,
\* 0.95} (also for the blocks of index >= 7, drawn from the pool with
\* replacement), and never config.hazardRate.
C9_RatesFromPool ==
    config.blockCount > 1 =>
        /\ \A k \in 1..Len(blocks) :
              /\ blocks[k].hazardRate \in AllowedRates
              /\ blocks[k].hazardRate # config.hazardRate
        /\ spc = "call" => h \in AllowedRates /\ hazardRate = h

\* a returned session whose 8th block repeats the rate of its 2nd block
C9_Witness ==
    /\ SessionReturned
    /\ config.blockCount > 7
    /\ Len(blocks) = config.blockCount
    /\ blocks[8].hazardRate = blocks[2].hazardRate
    /\ blocks[8].hazardRate = 950

\* C10: generateSessionData returns exactly blockCount blocks and the block at
\* 0-based position b has blockId b + 1.
C10_BlockIdsSequential ==
    /\ \A k \in 1..Len(blocks) : blocks[k].blockId = k
    /\ Len(blocks) <= config.blockCount
    /\ SessionReturned => Len(blocks) = config.blockCount

C10_Witness ==
    /\ SessionReturned
    /\ config.blockCount > 7
    /\ Len(blocks) = config.blockCount
    /\ blocks[Len(blocks)].blockId = config.blockCount

InOpenUnitInterval(rate) == 0 < rate /\ rate < 1000

\* C11 (as stated): every block of a session has a hazardRate strictly between
\* 0 and 1, for every configuration, single-block mode with any manual rate
\* included.
C11_AllRatesInOpenInterval ==
    \A k \in 1..Len(blocks) : InOpenUnitInterval(blocks[k].hazardRate)

\* C11 (amended): with blockCount > 1 every block's hazardRate, and the rate
\* its trials are generated with, is strictly between 0 and 1; with
\* blockCount = 1 the block's hazardRate is strictly between 0 and 1 exactly
\* when config.hazardRate is (0, 1 and other manual rates are passed through).
C11_RatesInOpenIntervalUnlessManual ==
    /\ config.blockCount > 1 =>
          /\ \A k \in 1..Len(blocks) : InOpenUnitInterval(blocks[k].hazardRate)
          /\ spc = "call" => InOpenUnitInterval(hazardRate)
    /\ config.blockCount = 1 =>
          \A k \in 1..Len(blocks) :
              InOpenUnitInterval(blocks[k].hazardRate)
                  <=> InOpenUnitInterval(config.hazardRate)

\* a returned session of 8 blocks whose last, randomly picked, rate is 0.05
C11_Witness ==
    /\ SessionReturned
    /\ config.blockCount = 8
    /\ Len(blocks) = 8
    /\ blocks[8].hazardRate = 50
    /\ blocks[1].hazardRate = 100

----------------------------------------------------------------------------
(* Claims about GlazeModel *)

TrajectoryReturned == mpc \in {"trajectory", "scored"}

\* the belief before trial k: 0 before the first
PreviousBelief(k) == IF k = 1 THEN 0 ELSE beliefs[k - 1]

\* C12: getBeliefTrajectory returns one belief per element of data, and the
\* belief at position k is psi(belief at k - 1, H) + LLR(data[k].starPosition),
\* starting from a belief of 0: every element is consumed once, in order.
C12_TrajectoryFollowsUpdateRule ==
    TrajectoryReturned =>
        /\ Len(beliefs) = Len(data)
        /\ \A k \in 1..Len(data) :
              beliefs[k] = FAdd(psi(PreviousBelief(k), subjectiveH),
                                calculateLLR(data[k].starPosition, taskConfig))

\* a trajectory of three finite beliefs in which the prior expectation differs
\* from the previous belief
C12_Witness ==
    /\ TrajectoryReturned
    /\ Len(data) = 3
    /\ \A k \in 1..3 : IsFinite(beliefs[k])
    /\ data[3].starPosition < 0
    /\ psi(beliefs[2], subjectiveH) # beliefs[2]
    /\ beliefs[3] # beliefs[2] + calculateLLR(data[3].starPosition, taskConfig)

\* C13: psi(0, H) = 0 for every H, so the first belief of a trajectory is the
\* LLR of the first evidence, whatever H is.
C13_NeutralPriorStaysNeutral ==
    TrajectoryReturned =>
        /\ psi(0, subjectiveH) = 0
        /\ Len(data) > 0 =>
              /\ beliefs[1] = calculateLLR(data[1].starPosition, taskConfig)
              /\ \A H \in BeliefHs :
                    getBeliefTrajectory(SubSeq(data, 1, 1), taskConfig, H)[1] = beliefs[1]

\* a trajectory for H = 0.3 whose first belief is the LLR 15.625 of evidence 0.45
C13_Witness ==
    /\ TrajectoryReturned
    /\ subjectiveH = 300000
    /\ taskConfig.stdDev = 120
    /\ Len(data) = 2
    /\ data[1].starPosition = 450
    /\ beliefs[1] = 15625
    /\ beliefs[2] # beliefs[1]

OnScreen(d) == \A k \in 1..Len(d) : Abs(d[k].starPosition) <= 500

\* C14: an H of 0, of 1 or outside [0,1] acts as 1e-6 (H <= 0) or 1 - 1e-6
\* (H >= 1): the rate whose odds are taken is strictly inside (0,1), the
\* trajectory equals the one of the clamped rate, and for on-screen evidence
\* every belief is a finite number.
C14_HazardClamped ==
    TrajectoryReturned =>
        /\ ClampH(subjectiveH) > 0
        /\ ClampH(subjectiveH) < 1000000
        /\ subjectiveH <= H_MIN =>
              beliefs = getBeliefTrajectory(data, taskConfig, H_MIN)
        /\ subjectiveH >= H_MAX =>
              beliefs = getBeliefTrajectory(data, taskConfig, H_MAX)
        /\ OnScreen(data) => \A k \in 1..Len(beliefs) : IsFinite(beliefs[k])

\* a trajectory for H = 0 that differs from the one for H = 0.3
C14_Witness ==
    /\ TrajectoryReturned
    /\ subjectiveH = 0
    /\ Len(data) = 3
    /\ OnScreen(data)
    /\ beliefs # getBeliefTrajectory(data, taskConfig, 300000)
    /\ beliefs = getBeliefTrajectory(data, taskConfig, 1)

----------------------------------------------------------------------------
(* Claims about fitSubjectiveH *)

FitReturned == mpc = "fitted"

\* the score fitSubjectiveH computes for a candidate
ScoreOf(hc) == calculateFitScore(data, taskConfig, hc)

\* C15 (as stated): fitSubjectiveH evaluates the candidates 0.001, 0.011, ...
\* in steps of 0.01 up to and including 0.999, each once, in increasing order.
C15_GridUpToAndIncluding0999 ==
    FitReturned =>
        /\ Len(evaluated) > 0
        /\ evaluated[1] = GRID_START
        /\ \A k \in 2..Len(evaluated) : evaluated[k] = evaluated[k - 1] + GRID_STEP
        /\ evaluated[Len(evaluated)] = GRID_END

\* C15 (amended): fitSubjectiveH evaluates exactly the 100 candidates
\* 0.001 + 0.01 k, k = 0..99, each once, in increasing order and whatever the
\* scores are; the last candidate is 0.991, and 0.999 is not evaluated.  While
\* the loop runs, the candidates evaluated so far are the first ones of that
\* list and the next one is the loop variable.
C15_GridOfHundredCandidates ==
    /\ mpc \in {"fit", "fitted"} =>
          /\ \A k \in 1..Len(evaluated) : evaluated[k] = GRID_START + ((k - 1) * GRID_STEP)
          /\ fitH = GRID_START + (Len(evaluated) * GRID_STEP)
          /\ Len(evaluated) <= 100
    /\ FitReturned =>
          /\ Len(evaluated) = 100
          /\ evaluated[100] = 991000
          /\ \A k \in 1..100 : evaluated[k] # GRID_END

\* a fit of three trials whose scores are numbers and differ between candidates
C15_Witness ==
    /\ FitReturned
    /\ Len(data) = 3
    /\ Len(evaluated) = 100
    /\ IsFinite(minNLL)
    /\ IsFinite(nll)
    /\ nll # minNLL

\* a <= b of two doubles: false when either is NaN
FLessEq(p, q) == p # NaN /\ q # NaN /\ p <= q

\* C16: the returned hazard rate is a candidate of the grid whose score is less
\* than or equal to the score of every candidate, and strictly less than the
\* score of every candidate evaluated before it (the first one wins a tie).
C16_ReturnsFirstMinimum ==
    FitReturned =>
        \E k \in 1..Len(evaluated) :
            /\ fitResult.fittedH = evaluated[k]
            /\ \A j \in 1..Len(evaluated) :
                  FLessEq(ScoreOf(evaluated[k]), ScoreOf(evaluated[j]))
            /\ \A j \in 1..(k - 1) :
                  FLess(ScoreOf(evaluated[k]), ScoreOf(evaluated[j]))

\* C17: fitSubjectiveH returns a fittedH within [0.001, 0.999] and, as
\* beliefTrajectory, the trajectory of that fittedH on the same data: one
\* belief per trial, each psi(previous belief, fittedH) + LLR of the trial.
C17_FitResultConsistent ==
    FitReturned =>
        /\ fitResult.fittedH = bestH
        /\ GRID_START <= fitResult.fittedH
        /\ fitResult.fittedH <= GRID_END
        /\ Len(fitResult.beliefTrajectory) = Len(data)
        /\ \A k \in 1..Len(data) :
              fitResult.beliefTrajectory[k] =
                  FAdd(psi(IF k = 1 THEN 0 ELSE fitResult.beliefTrajectory[k - 1],
                           fitResult.fittedH),
                       calculateLLR(data[k].starPosition, taskConfig))

\* a fit of three trials that returns a rate other than the initial 0.5, with
\* a trajectory other than the one of 0.5
C17_Witness ==
    /\ FitReturned
    /\ Len(data) = 3
    /\ fitResult.fittedH # INITIAL_BEST_H
    /\ \A k \in 1..3 : IsFinite(fitResult.beliefTrajectory[k])
    /\ fitResult.beliefTrajectory # getBeliefTrajectory(data, taskConfig, INITIAL_BEST_H)

----------------------------------------------------------------------------
(* Claims about calculateFitScore *)

Scored == mpc = "scored"

\* a negative log-likelihood: a finite number that is not negative
ValidNLL(v) == IsFinite(v) /\ v >= 0

\* C18: for an empty data the trajectory is empty and the fit score is an
\* undefined marker (NaN or a sentinel), not a value a negative log-likelihood
\* can take.
C18_EmptyScoreIsUndefinedMarker ==
    (Scored /\ data = <<>>) =>
        /\ beliefs = <<>>
        /\ ~ValidNLL(nll)

\* a record without userChoice: the choice sequence is shorter than the
\* evidence sequence
MissingChoice(d) == \E k \in 1..Len(d) : d[k].userChoice = undefined

\* C19: when choices are missing for some evidence, scoring fails with an
\* error: calculateFitScore returns no score.
C19_MismatchFailsFast ==
    MissingChoice(data) => ~Scored

\* C20: the score returned by calculateFitScore is a finite number, between 0
\* and -ln(1e-10) per trial, for every data and every hazard rate.
C20_ScoreAlwaysFinite ==
    Scored =>
        /\ IsFinite(nll)
        /\ 0 <= nll
        /\ nll <= Len(data) * (0 - LOG_EPSILON)

----------------------------------------------------------------------------
(* Claims about the fit of right evidence with right choices *)

AllRight(d) ==
    /\ Len(d) > 0
    /\ \A k \in 1..Len(d) : d[k].starPosition > 0 /\ d[k].userChoice = 1

\* C21: for sigma ratio 0.24 (stdDev 0.12) and meanPosition 0.25 the evidence
\* [0.3 x 5] with choices [1 x 5] is fitted to a rate within 0.001..0.1; and
\* whenever all evidence is positive and all choices are 1 the score does not
\* decrease from one candidate to the next, and the first candidate is
\* returned.
C21_RightEvidenceFitsLowHazard ==
    (FitReturned /\ AllRight(data)) =>
        /\ data = StrongRightEvidence =>
              GRID_START <= fitResult.fittedH /\ fitResult.fittedH <= 100000
        /\ \A k \in 2..Len(evaluated) :
              FLessEq(ScoreOf(evaluated[k - 1]), ScoreOf(evaluated[k]))
        /\ fitResult.fittedH = GRID_START

----------------------------------------------------------------------------
(* App (part_001, lines 177-380) and TrianglesGame.  A step is one event     *)
(* handler or timer callback together with the render that follows it: the   *)
(* useMemo of App and the mounting or unmounting of TrianglesGame.  Reaction  *)
(* times (performance.now) are left out.                                      *)

ALLOWED_SIGMA_LEVELS == <<240, 330, 410>>

\* lines 177-179: ALLOWED_SIGMA_LEVELS[Math.floor(Math.random() * length)]
getRandomSigma(u) == At(ALLOWED_SIGMA_LEVELS, (u * Len(ALLOWED_SIGMA_LEVELS)) \div 1000)

\* line 200: the dependency list of the useMemo
Deps(cfg, ph) ==
    [trialCount |-> cfg.trialCount, hazardRate |-> cfg.hazardRate,
     distributionSigma |-> cfg.distributionSigma, blockCount |-> cfg.blockCount,
     phase |-> ph]

DepsChangedIgnoringSigma(deps, cfg, ph) ==
    [deps EXCEPT !.distributionSigma = 0] #
        [Deps(cfg, ph) EXCEPT !.distributionSigma = 0]

\* useMemo recomputes when a dependency differs from the one of the last run
DepsChanged(deps, cfg, ph) == deps # Deps(cfg, ph)

\* the arrays generateBlockTrials(n, ..) can return with stars drawn from stars
BlockTrials(n, stars) ==
    {[k \in 1..n |-> MkTrial(k - 1, f[k].source, f[k].x, muY)] : f \in [1..n -> stars]}

\* lines 79-118: the sessions generateSessionData(cfg) can return when the
\* shuffled pool is one of pools and the stars are drawn from stars: one block
\* with the manual rate, or blockCount blocks with the rates of the pool
GeneratedSessions(cfg, pools, stars) ==
    IF cfg.blockCount = 1
    THEN {<<MkBlock(1, SingleBlockRate(cfg), ts)>> : ts \in BlockTrials(cfg.trialCount, stars)}
    ELSE {[k \in 1..cfg.blockCount |-> MkBlock(BlockId(k - 1), At(pl, k - 1), f[k])] :
             pl \in pools,
             f \in [1..cfg.blockCount -> BlockTrials(cfg.trialCount, stars)]}

\* line 325-326: TrianglesGame is rendered
MountedIn(st) == st.activeTab = "experiment" /\ st.phase = "RUNNING"

Mounted == MountedIn(state)

\* line 44: sessionData[blockIndex] is defined
HasBlock == blockIndex + 1 \in DOMAIN sessionData

\* line 45: currentBlock?.trials || []
currentTrials == IF HasBlock THEN sessionData[blockIndex + 1].trials ELSE <<>>

\* line 68-69: currentTrials[trialIndex] is defined
HasTrial == trialIndex + 1 \in DOMAIN currentTrials

calculateRewardMagnitudeTenths(positionX) == (Abs(positionX - CENTER) + 50) \div 100

\* math.ts lines 124-128: Math.round(Math.abs(positionX - 0.5) * 100)
calculateRewardMagnitude(positionX) == (Abs(positionX - CENTER) + 5) \div 10

ChoiceAcceptedInFeedback(gs) == gs \in {"stimulus", "feedback"}

\* line 66: if (gameState !== 'stimulus') return
ChoiceAccepted(gs) == gs = "stimulus"

\* lines 71-89: the TrialResult of a choice on the current trial
MkResult(choice) ==
    LET currentBlock == sessionData[blockIndex + 1]
        currentTrial == currentTrials[trialIndex + 1]
        isCorrect == choice = currentTrial.source
        magnitude == calculateRewardMagnitude(currentTrial.x)
    IN [trialNumber |-> trialIndex + 1,
        blockNumber |-> currentBlock.blockId,
        trueSource |-> currentTrial.source,
        starX |-> currentTrial.x,
        starY |-> currentTrial.y,
        userChoice |-> choice,
        isCorrect |-> isCorrect,
        reward |-> IF isCorrect THEN magnitude ELSE 0 - magnitude,
        hazardRate |-> currentBlock.hazardRate,
        distributionSigma |-> state.config.distributionSigma]

HasNextTrialShort(t, n) == t < n - 2

\* line 98: trialIndex < currentTrials.length - 1
HasNextTrial(t, n) == t < n - 1

NextBlockTrialIndexKept(t) == t

\* line 120: setTrialIndex(0)
NextBlockTrialIndex(t) == 0

\* the state of a TrianglesGame that has just been mounted (lines 28-39)
FreshGame ==
    /\ blockIndex' = 0
    /\ trialIndex' = 0
    /\ gameState' = "waiting"
    /\ lastResult' = [shown |-> FALSE, correct |-> FALSE, reward |-> 0]
    /\ blockScore' = 0
    /\ feedbackTimer' = [armed |-> FALSE, trialIndex |-> 0, length |-> 0]
    /\ answeredInMount' = 0

\* the render after App's state became st: the useMemo of lines 198-200, and
\* TrianglesGame unmounted (its state and timers are gone) or mounted afresh
\* when the condition of lines 325-326 changes
Render(st, pools, stars) ==
    /\ IF DepsChanged(memoDeps, st.config, st.phase)
       THEN /\ sessionData' \in GeneratedSessions(st.config, pools, stars)
            /\ memoDeps' = Deps(st.config, st.phase)
       ELSE UNCHANGED <<sessionData, memoDeps>>
    /\ IF MountedIn(st) /\ Mounted THEN UNCHANGED gameVars ELSE FreshGame

\* lines 206-216: the state handleStart sets
handleStart(prev, newSigma) ==
    [prev EXCEPT !.phase = "RUNNING",
                 !.activeTab = "experiment",
                 !.history = <<>>,
                 !.score = 0,
                 !.config.distributionSigma = newSigma]

\* line 220: the state handleStop sets
handleStop(prev) == [prev EXCEPT !.phase = "FINISHED", !.activeTab = "analysis"]

handleTrialCompleteMagnitude(prev, result) ==
    [prev EXCEPT !.score = @ + Abs(result.reward), !.history = Append(@, result)]

\* lines 224-228: the state handleTrialComplete sets
handleTrialComplete(prev, result) ==
    [prev EXCEPT !.score = @ + result.reward, !.history = Append(@, result)]

\* the part of the model that App and TrianglesGame do not touch
NoOtherChange ==
    /\ UNCHANGED genVars
    /\ UNCHANGED sesVars
    /\ UNCHANGED glazeVars

\* handleStart (lines 202-217): Run Session / Start Session while not RUNNING,
\* or Restart Experiment of ResultsView, which App renders on the analysis tab
\* when history is not empty
HandleStart(U, pools, stars) ==
    /\ \/ state.phase # "RUNNING"
       \/ state.activeTab = "analysis" /\ Len(state.history) > 0
    /\ \E u \in U :
          LET st == handleStart(state, getRandomSigma(u))
          IN /\ state' = st
             /\ Render(st, pools, stars)
    /\ finishedBy' = "none"
    /\ NoOtherChange

\* handleStop (lines 219-221), from the Stop Session button
HandleStop(pools, stars) ==
    /\ state.phase = "RUNNING"
    /\ LET st == handleStop(state)
       IN /\ state' = st
          /\ Render(st, pools, stars)
    /\ finishedBy' = "stop"
    /\ NoOtherChange

\* the NavButtons (lines 249-266): setState(s => ({...s, activeTab}))
SetActiveTab(pools, stars) ==
    /\ \E tab \in {"experiment", "analysis", "config"} :
          LET st == [state EXCEPT !.activeTab = tab]
          IN /\ state' = st
             /\ Render(st, pools, stars)
    /\ UNCHANGED finishedBy
    /\ NoOtherChange

\* handleConfigChange (lines 231-233) through a control of LabConfigPanel,
\* which App renders on the config tab and disables while RUNNING; the
\* hazard-rate select exists only when blockCount is 1
HandleConfigChange(rates, counts, blocks_, pools, stars) ==
    /\ state.activeTab = "config"
    /\ state.phase # "RUNNING"
    /\ \E st \in {[state EXCEPT !.config.hazardRate = r] :
                     r \in IF state.config.blockCount > 1 THEN {} ELSE rates}
                 \cup {[state EXCEPT !.config.trialCount = n] : n \in counts}
                 \cup {[state EXCEPT !.config.blockCount = n] : n \in blocks_} :
          /\ state' = st
          /\ Render(st, pools, stars)
    /\ UNCHANGED finishedBy
    /\ NoOtherChange

\* the timer of the auto-start effect (TrianglesGame lines 55-63)
AutoStartTimer ==
    /\ Mounted
    /\ trialIndex = 0
    /\ gameState = "waiting"
    /\ HasBlock
    /\ gameState' = "stimulus"
    /\ UNCHANGED <<state, sessionData, memoDeps, blockIndex, trialIndex, lastResult,
                   blockScore, feedbackTimer, answeredInMount, finishedBy>>
    /\ NoOtherChange

\* handleChoice (TrianglesGame lines 65-109) with handleTrialComplete (App
\* lines 223-229), from a click or an arrow key; at most cap results are
\* collected
HandleChoice(cap) ==
    /\ Mounted
    /\ \E choice \in {"left", "right"} :
          IF ~ChoiceAccepted(gameState) \/ ~HasTrial
          THEN UNCHANGED appVars
          ELSE /\ Len(state.history) < cap
               /\ LET result == MkResult(choice)
                  IN /\ blockScore' = blockScore + result.reward
                     /\ state' = handleTrialComplete(state, result)
                     /\ lastResult' = [shown |-> TRUE, correct |-> result.isCorrect,
                                       reward |-> result.reward]
               /\ gameState' = "feedback"
               /\ feedbackTimer' = [armed |-> TRUE, trialIndex |-> trialIndex,
                                    length |-> Len(currentTrials)]
               /\ answeredInMount' = answeredInMount + 1
               /\ UNCHANGED <<sessionData, memoDeps, blockIndex, trialIndex, finishedBy>>
    /\ NoOtherChange

\* the 800 ms timer set by handleChoice (lines 97-108), with the trialIndex
\* and currentTrials its closure captured
FeedbackTimer ==
    /\ Mounted
    /\ feedbackTimer.armed
    /\ IF HasNextTrial(feedbackTimer.trialIndex, feedbackTimer.length)
       THEN /\ trialIndex' = trialIndex + 1
            /\ gameState' = "stimulus"
            /\ lastResult' = [shown |-> FALSE, correct |-> FALSE, reward |-> 0]
       ELSE /\ gameState' = "block_interstitial"
            /\ UNCHANGED <<trialIndex, lastResult>>
    /\ feedbackTimer' = [armed |-> FALSE, trialIndex |-> 0, length |-> 0]
    /\ UNCHANGED <<state, sessionData, memoDeps, blockIndex, blockScore, answeredInMount,
                   finishedBy>>
    /\ NoOtherChange

\* handleNextBlock (lines 111-128), from the button of the interstitial screen
\* (lines 164-202); on the last block it calls onSessionComplete = handleStop
HandleNextBlock(pools, stars) ==
    /\ Mounted
    /\ HasBlock
    /\ gameState = "block_interstitial"
    /\ IF blockIndex < Len(sessionData) - 1
       THEN /\ blockIndex' = blockIndex + 1
            /\ trialIndex' = NextBlockTrialIndex(trialIndex)
            /\ blockScore' = 0
            /\ lastResult' = [shown |-> FALSE, correct |-> FALSE, reward |-> 0]
            /\ gameState' = "waiting"
            /\ UNCHANGED <<state, sessionData, memoDeps, feedbackTimer, answeredInMount,
                           finishedBy>>
       ELSE /\ LET st == handleStop(state)
               IN /\ state' = st
                  /\ Render(st, pools, stars)
            /\ finishedBy' = "complete"
    /\ NoOtherChange

MaxHistory == 3

\* trial counts and block counts: a block of one trial and of several, a
\* session of one block and of several
AppTrialCounts == {1, 2}

AppBlockCounts == {1, 2}

AppManualRates == {50, 300}

\* Math.random() for getRandomSigma: sigma 0.24 and 0.33
AppSigmaDraws == {0, 500}

\* two outcomes of the shuffle of the pool
AppPools == {<<50, 950, 300, 100, 500, 700, 900>>, <<950, 50, 100, 300, 900, 700, 500>>}

\* stars of a running session: reward magnitudes 1 and 45
AppStars == {[source |-> 0, x |-> 490], [source |-> 1, x |-> 950]}

\* the draws of the sessions generated while no game runs
IdlePools == {<<50, 950, 300, 100, 500, 700, 900>>}

IdleStars == {[source |-> 0, x |-> 490]}

\* App after construction (lines 182-195) and its first render.  The source
\* starts with trialCount 40 and blockCount 4; the counts explored are the
\* small ones of AppTrialCounts and AppBlockCounts.
AppInit ==
    /\ \E u \in AppSigmaDraws, n \in AppTrialCounts, m \in AppBlockCounts :
          state = [activeTab |-> "experiment", phase |-> "IDLE", score |-> 0,
                   history |-> <<>>,
                   config |-> [hazardRate |-> 50, distributionSigma |-> getRandomSigma(u),
                               trialCount |-> n, blockCount |-> m]]
    /\ sessionData \in GeneratedSessions(state.config, IdlePools, IdleStars)
    /\ memoDeps = Deps(state.config, state.phase)
    /\ NoGame
    /\ finishedBy = "none"
    /\ NoGenerate
    /\ NoSession
    /\ NoGlaze

AppNext ==
    \/ HandleStart(AppSigmaDraws, AppPools, AppStars)
    \/ HandleStop(IdlePools, IdleStars)
    \/ SetActiveTab(IdlePools, IdleStars)
    \/ HandleConfigChange(AppManualRates, AppTrialCounts, AppBlockCounts, IdlePools, IdleStars)
    \/ AutoStartTimer
    \/ HandleChoice(MaxHistory)
    \/ FeedbackTimer
    \/ HandleNextBlock(IdlePools, IdleStars)

SpecApp == AppInit /\ [][AppNext]_vars

----------------------------------------------------------------------------
(* Claims about the results App collects *)

history == state.history

\* C22: every recorded reward is +round(|x - 0.5| * 100) when the choice is the
\* trial's source and minus that otherwise; the magnitude m is the integer
\* nearest to |x - 0.5| * 100 (halves up), it is between 1 and 45, and no
\* reward is 0.
C22_RewardIsSignedRoundedDistance ==
    \A k \in 1..Len(history) :
        LET r == history[k]
            m == Abs(r.reward)
            dist == Abs(r.starX - 500)
        IN /\ (10 * m) - 5 <= dist
           /\ dist < (10 * m) + 5
           /\ r.isCorrect <=> r.userChoice = r.trueSource
           /\ r.reward = IF r.userChoice = r.trueSource THEN m ELSE 0 - m
           /\ 1 <= m
           /\ m <= 45
           /\ r.reward # 0

\* a wrong choice on a star at 0.49 (reward -1) and a right one on a star at
\* 0.95 (reward +45)
C22_Witness ==
    \E j, k \in 1..Len(history) :
        /\ history[j].reward = 0 - 1
        /\ history[j].starX = 490
        /\ history[k].reward = 45
        /\ history[k].starX = 950

\* C23: history holds at most one record per (blockNumber, trialNumber),
\* whatever the user did: choices, timers, tab switches, start and stop.
C23_OneRecordPerTrial ==
    \A j, k \in 1..Len(history) :
        (history[j].blockNumber = history[k].blockNumber
            /\ history[j].trialNumber = history[k].trialNumber) => j = k

----------------------------------------------------------------------------
(* Claims about the purity of GlazeModel *)

----------------------------------------------------------------------------
(* ResultsView *)

\* Object.keys of an object with integer keys: ascending numeric order
RECURSIVE ObjectKeys(_)
ObjectKeys(S) ==
    IF S = {} THEN <<>>
    ELSE LET m == CHOOSE e \in S : \A o \in S : e <= o
         IN <<m>> \o ObjectKeys(S \ {m})

\* lines 42-46: blocks[n], as the indices into hist of the trials of block n in
\* the order of hist
blockTrials(hist, n) ==
    SelectSeq([k \in 1..Len(hist) |-> k], LAMBDA k : hist[k].blockNumber = n)

\* lines 53-95: fit.beliefTrajectory has one belief per trial of blockTrials, in
\* their order; each belief of fullTrajectory is represented by the index into
\* hist of the trial it was computed for
RECURSIVE AccumulateTrajectory(_, _, _)
AccumulateTrajectory(hist, keys, acc) ==
    IF keys = <<>> THEN acc
    ELSE AccumulateTrajectory(hist, Tail(keys), acc \o blockTrials(hist, Head(keys)))

fullTrajectory(hist) ==
    AccumulateTrajectory(hist, ObjectKeys({hist[k].blockNumber : k \in 1..Len(hist)}), <<>>)

\* ResultsView is on screen: part_001 lines 356-366
ResultsShown == state.activeTab = "analysis" /\ Len(history) > 0

\* C25: in the chart data of ResultsView the belief attached to history[idx]
\* is the one the fit of its block computed for that trial: fullTrajectory[idx]
\* was computed for history[idx], for every idx.
C25_BeliefAlignedWithHistory ==
    ResultsShown =>
        \A idx \in 1..Len(history) : fullTrajectory(history)[idx] = idx

----------------------------------------------------------------------------
(* Claims about the score and the session of App *)

RECURSIVE SumRewards(_)
SumRewards(hist) == IF hist = <<>> THEN 0 ELSE Head(hist).reward + SumRewards(Tail(hist))

\* C26: in every reachable state of App, state.score is the sum of the rewards
\* of the records in state.history.
C26_ScoreIsSumOfRewards == state.score = SumRewards(history)

\* a history with a loss and a gain, and the score they add up to
C26_Witness ==
    /\ Len(history) = 2
    /\ history[1].reward = 0 - 1
    /\ history[2].reward = 45
    /\ state.score = 44


\* the record r is what trial r.trialNumber - 1 of block r.blockNumber of the
\* session ses, generated with the sigma ratio sigma, gives
AgreesWithSession(r, ses, sigma) ==
    /\ r.blockNumber \in DOMAIN ses
    /\ LET block == ses[r.blockNumber]
       IN /\ block.blockId = r.blockNumber
          /\ r.trialNumber \in DOMAIN block.trials
          /\ LET trial == block.trials[r.trialNumber]
             IN /\ trial.trialIndex = r.trialNumber - 1
                /\ r.trueSource = trial.source
                /\ r.starX = trial.x
                /\ r.starY = trial.y
          /\ r.hazardRate = block.hazardRate
    /\ r.distributionSigma = sigma

SessionIsCurrent ==
    state.phase = "RUNNING" =>
        /\ memoDeps = Deps(state.config, state.phase)
        /\ \A k \in 1..Len(history) :
              AgreesWithSession(history[k], sessionData, memoDeps.distributionSigma)

SessionKeptUnderGame ==
    /\ Mounted /\ Mounted' => sessionData' = sessionData /\ memoDeps' = memoDeps
    /\ state.phase = "RUNNING" /\ state'.phase = "RUNNING" /\ sessionData' # sessionData
           => state'.history = <<>>

\* C27: while the phase is RUNNING the session data is not regenerated while
\* the game is mounted, a regeneration between two RUNNING states comes with
\* an emptied history, and every record of history agrees with the current
\* session: source, starX and starY of its trial, hazardRate of its block and
\* the distributionSigma the session was generated with.
C27_HistoryAgreesWithSession == []SessionIsCurrent /\ [][SessionKeptUnderGame]_vars

\* three records of a running two-block session, the last one of block 2
C27_Witness ==
    /\ state.phase = "RUNNING"
    /\ Mounted
    /\ Len(history) = MaxHistory
    /\ history[Len(history)].blockNumber = 2
    /\ history[Len(history)].hazardRate = sessionData[2].hazardRate
    /\ sessionData[1].hazardRate # sessionData[2].hazardRate

----------------------------------------------------------------------------
(* Claims about TrianglesGame *)

ResultRecorded == Len(state'.history) > Len(history)

\* what one accepted choice does: one record for the current trial is
\* appended, its reward goes to both scores and the game shows the feedback
OneResultRecorded ==
    /\ Mounted
    /\ gameState = "stimulus"
    /\ gameState' = "feedback"
    /\ Len(state'.history) = Len(history) + 1
    /\ SubSeq(state'.history, 1, Len(history)) = history
    /\ LET r == state'.history[Len(history) + 1]
       IN /\ r.trialNumber = trialIndex + 1
          /\ r.blockNumber = blockIndex + 1
          /\ state'.score = state.score + r.reward
          /\ blockScore' = blockScore + r.reward
    /\ trialIndex' = trialIndex
    /\ blockIndex' = blockIndex

\* C28: a choice is accepted only in game state 'stimulus': a step that
\* records a result starts in 'stimulus', ends in 'feedback' and appends
\* exactly one record; a step taken in 'waiting', 'feedback' or
\* 'block_interstitial' that keeps the game mounted records nothing and
\* leaves the app score and history as they were.
C28_ChoiceAcceptedOnlyInStimulus ==
    [][/\ ResultRecorded => OneResultRecorded
       /\ (Mounted /\ Mounted' /\ gameState # "stimulus") =>
              state'.history = history /\ state'.score = state.score]_vars

\* the feedback of the first accepted choice is on screen
C28_Witness ==
    /\ Mounted
    /\ gameState = "feedback"
    /\ lastResult.shown
    /\ feedbackTimer.armed
    /\ Len(history) = 1
    /\ answeredInMount = 1


\* the trial at trialIndex of the block at blockIndex is the last one answered
CurrentTrialAnswered ==
    /\ Len(history) > 0
    /\ history[Len(history)].blockNumber = blockIndex + 1
    /\ history[Len(history)].trialNumber = trialIndex + 1

\* the number of trials of the session
RECURSIVE SessionTrials(_)
SessionTrials(ses) ==
    IF ses = <<>> THEN 0 ELSE Len(Head(ses).trials) + SessionTrials(Tail(ses))

SameMount == Mounted /\ Mounted'

\* C29: within one mount trialIndex grows only by 1, from 'feedback' of an
\* answered trial; 'block_interstitial' is entered only from 'feedback' of the
\* answered last trial of the block; blockIndex grows only by 1, from the
\* interstitial, with trialIndex and blockScore reset to 0; and
\* onSessionComplete is called only from the interstitial of the last block,
\* when every trial of the session was answered in this mount.
C29_TrialsPlayedInOrder ==
    [][/\ (SameMount /\ blockIndex' = blockIndex /\ trialIndex' # trialIndex) =>
              /\ trialIndex' = trialIndex + 1
              /\ gameState = "feedback"
              /\ CurrentTrialAnswered
              /\ trialIndex' + 1 \in DOMAIN currentTrials
       /\ (SameMount /\ gameState' = "block_interstitial"
                     /\ gameState # "block_interstitial") =>
              /\ gameState = "feedback"
              /\ CurrentTrialAnswered
              /\ trialIndex = Len(currentTrials) - 1
       /\ (SameMount /\ blockIndex' # blockIndex) =>
              /\ blockIndex' = blockIndex + 1
              /\ gameState = "block_interstitial"
              /\ trialIndex' = 0
              /\ blockScore' = 0
       /\ (finishedBy' = "complete" /\ finishedBy # "complete") =>
              /\ Mounted
              /\ gameState = "block_interstitial"
              /\ blockIndex = Len(sessionData) - 1
              /\ answeredInMount = SessionTrials(sessionData)]_vars

\* a session of two blocks played to its end
C29_Witness ==
    /\ finishedBy = "complete"
    /\ state.phase = "FINISHED"
    /\ Len(sessionData) = 2
    /\ Len(history) = 2
    /\ history[1].blockNumber = 1
    /\ history[2].blockNumber = 2

----------------------------------------------------------------------------
(* One session played to its end: App after handleStart, with the timers of
   TrianglesGame and a user who answers and presses the next-block button *)

PlayInit ==
    /\ \E u \in AppSigmaDraws, n \in AppTrialCounts, m \in AppBlockCounts :
          state = handleStart([activeTab |-> "experiment", phase |-> "IDLE", score |-> 0,
                               history |-> <<>>,
                               config |-> [hazardRate |-> 50, distributionSigma |-> 240,
                                           trialCount |-> n, blockCount |-> m]],
                              getRandomSigma(u))
    /\ sessionData \in GeneratedSessions(state.config, AppPools, AppStars)
    /\ memoDeps = Deps(state.config, state.phase)
    /\ NoGame
    /\ finishedBy = "none"
    /\ NoGenerate
    /\ NoSession
    /\ NoGlaze

Answer == HandleChoice(SessionTrials(sessionData))

PressNextBlock == HandleNextBlock(IdlePools, IdleStars)

PlayNext ==
    \/ AutoStartTimer
    \/ Answer
    \/ FeedbackTimer
    \/ PressNextBlock

SpecPlay == PlayInit /\ [][PlayNext]_vars

\* a set timeout fires; the user answers the stimulus on screen and presses
\* the button of the interstitial screen
FairSpecPlay ==
    /\ SpecPlay
    /\ WF_vars(AutoStartTimer)
    /\ WF_vars(FeedbackTimer)
    /\ WF_vars(Answer)
    /\ WF_vars(PressNextBlock)

\* in each game state of a running session the timer or the input that state
\* waits for can act
NoDeadEnd ==
    state.phase = "RUNNING" =>
        \/ gameState = "waiting" /\ ENABLED <<AutoStartTimer>>_vars
        \/ gameState = "stimulus" /\ ENABLED <<Answer>>_vars
        \/ gameState = "feedback" /\ ENABLED <<FeedbackTimer>>_vars
        \/ gameState = "block_interstitial" /\ ENABLED <<PressNextBlock>>_vars

SessionCompleted ==
    /\ state.phase = "FINISHED"
    /\ finishedBy = "complete"
    /\ Len(history) = SessionTrials(sessionData)

PlayIndices == {n - 1 : n \in AppTrialCounts \cup AppBlockCounts}

\* the stimulus of trial t of block bl is on screen, if the session has it
StimulusShown(bl, t) ==
    (bl + 1 \in DOMAIN sessionData /\ t + 1 \in DOMAIN sessionData[bl + 1].trials) =>
        (Mounted /\ gameState = "stimulus" /\ blockIndex = bl /\ trialIndex = t)

\* C30: a running session with fair timers and a user who answers and presses
\* the next-block button has no dead end, shows the stimulus of every trial of
\* every block, and eventually calls onSessionComplete, which sets the phase
\* to FINISHED with one record per trial.
C30_SessionCompletes ==
    /\ []NoDeadEnd
    /\ \A bl \in PlayIndices : \A t \in PlayIndices : <>StimulusShown(bl, t)
    /\ <>SessionCompleted

\* two blocks of two trials played to the end
C30_Witness ==
    /\ SessionCompleted
    /\ Len(sessionData) = 2
    /\ Len(history) = 4
    /\ history[4].blockNumber = 2
    /\ history[4].trialNumber = 2

====
